---- MODULE Spec2Model ----
(***************************************************************************)
(* Student grade manager: Student (record) and StudentManager (store with  *)
(* JSON persistence), modelled from src/code_made_by_ai.py.                *)
(***************************************************************************)
EXTENDS Integers, Sequences, FiniteSets, TLC

VARIABLES
    students,   \* StudentManager.students: insertion-ordered dict, a sequence of [k, v]
    file,       \* the content of StudentManager.data_file
    ret,        \* the boolean returned by the last Store call
    stats,      \* the dict returned by the last call when it was get_class_statistics
    op,         \* the last call: its name, the id it was about, what its save_data met
    student,    \* a free-standing Student object (not owned by a Store)
    result      \* what the last Student.add_score call on it returned

vars == <<students, file, ret, stats, op, student, result>>

----------------------------------------------------------------------------
(* Values. A Python value that can reach a score is a finite number, the   *)
(* float NaN, or something that is no number at all (a str, None). A bool *)
(* is an int in Python: True and False are the numbers 1 and 0.            *)

Num(n) == [k |-> "num", v |-> n]
NaN == [k |-> "nan", v |-> 0]
NotANumber == [k |-> "str", v |-> 0]

\* isinstance(score, (int, float))
IsIntOrFloat(x) == x.k \in {"num", "nan"}

\* Python's < and > on floats: every comparison with NaN is False
Lt(x, y) == x.k = "num" /\ y.k = "num" /\ x.v < y.v
Gt(x, y) == x.k = "num" /\ y.k = "num" /\ x.v > y.v

MinScore == 0
MaxScore == 100
ExcellentLine == 90
PassLine == 60
MinAge == 0
MaxAge == 150
\* the two genders the menu accepts (M, F for the source's two labels); X is any other string
AllowedGenders == {"M", "F"}

\* the inputs of the model
Ids == {"s1", "s2", "s3"}
Names == {"Ann", "Bob"}
Ages == {20, 200}
Genders == {"M", "X"}
Subjects == {"math", "eng"}
ScoreInputs ==
    {Num(-1), Num(0), Num(60), Num(90), Num(100), Num(101), NaN, NotANumber}
\* readings of datetime.now(): a whole second when s is even, a fraction otherwise
MaxTime == 2
Times == {[sec |-> s, us |-> (s % 2) * 250000] : s \in 1..MaxTime}

\* the empty dict
EmptyDict == <<>>

\* d[key] = value on a dict whose keys carry no order that matters
DictSet(d, key, value) ==
    [x \in DOMAIN d \cup {key} |-> IF x = key THEN value ELSE d[x]]

----------------------------------------------------------------------------
(* class Student                                                           *)

\* Student.__init__
NewStudent(student_id, name, age, gender, now) ==
    [student_id |-> student_id, name |-> name, age |-> age, gender |-> gender,
     scores |-> EmptyDict, create_time |-> now]

\* the condition under which add_score stores the value
add_score_accepts(score) ==
    ~(~IsIntOrFloat(score) \/ Lt(score, Num(MinScore)) \/ Gt(score, Num(MaxScore)))

\* Student.add_score: the returned bool and the scores dict it leaves
add_score(scores, subject, score) ==
    IF add_score_accepts(score)
    THEN [ok |-> TRUE, scores |-> DictSet(scores, subject, score)]
    ELSE [ok |-> FALSE, scores |-> scores]

RECURSIVE SumValues(_, _)
\* sum(self.scores.values()): starts from 0 and adds; NaN absorbs every sum
SumValues(scores, keys) ==
    IF keys = {} THEN Num(0)
    ELSE LET key == CHOOSE x \in keys : TRUE
             rest == SumValues(scores, keys \ {key})
         IN IF rest.k = "nan" \/ scores[key].k = "nan" THEN NaN
            ELSE Num(rest.v + scores[key].v)

RECURSIVE GCD(_, _)
GCD(a, b) == IF b = 0 THEN a ELSE GCD(b, a % b)

\* the float n/d, kept exact as a fraction in lowest terms
Quot(n, d) == LET g == GCD(n, d) IN [k |-> "num", n |-> n \div g, d |-> d \div g]
NaNQuot == [k |-> "nan", n |-> 0, d |-> 1]

\* float comparisons, False whenever one side is NaN
QLt(a, b) == a.k = "num" /\ b.k = "num" /\ a.n * b.d < b.n * a.d
QGt(a, b) == QLt(b, a)
QGe(a, b) == a.k = "num" /\ b.k = "num" /\ a.n * b.d >= b.n * a.d
QLe(a, b) == QGe(b, a)

\* float addition
QAdd(a, b) ==
    IF a.k = "nan" \/ b.k = "nan" THEN NaNQuot
    ELSE Quot(a.n * b.d + b.n * a.d, a.d * b.d)

\* Student.get_average_score
get_average_score(st) ==
    IF DOMAIN st.scores = {} THEN Quot(0, 1)
    ELSE LET total == SumValues(st.scores, DOMAIN st.scores)
         IN IF total.k = "nan" THEN NaNQuot
            ELSE Quot(total.v, Cardinality(DOMAIN st.scores))

\* faulty variant: isoformat(timespec='seconds')
isoformat_seconds(t) == <<t.sec>>

\* datetime.isoformat(): the fraction part is written only when microsecond is not 0
isoformat(t) == IF t.us = 0 THEN <<t.sec>> ELSE <<t.sec, t.us>>

\* datetime.fromisoformat(): a missing fraction part reads as microsecond 0
fromisoformat(text) ==
    IF Len(text) = 1 THEN [sec |-> text[1], us |-> 0]
    ELSE [sec |-> text[1], us |-> text[2]]

\* Student.to_dict
to_dict(st) ==
    [student_id |-> st.student_id, name |-> st.name, age |-> st.age,
     gender |-> st.gender, scores |-> st.scores,
     create_time |-> isoformat(st.create_time)]

\* Student.from_dict raises: KeyError on a missing key (scores has a default),
\* ValueError on a create_time that is no ISO text (the empty text stands for those)
from_dict_raises(data) ==
    \/ ~({"student_id", "name", "age", "gender", "create_time"} \subseteq DOMAIN data)
    \/ data.create_time = <<>>

\* Student.from_dict
from_dict(data) ==
    [student_id |-> data.student_id, name |-> data.name, age |-> data.age,
     gender |-> data.gender,
     scores |-> IF "scores" \in DOMAIN data THEN data.scores ELSE EmptyDict,
     create_time |-> fromisoformat(data.create_time)]

----------------------------------------------------------------------------
(* The dict StudentManager.students: keys in insertion order               *)

Keys(d) == {d[i].k : i \in DOMAIN d}
Has(d, key) == key \in Keys(d)
Get(d, key) == d[CHOOSE i \in DOMAIN d : d[i].k = key].v
Put(d, key, value) ==
    IF Has(d, key)
    THEN [i \in DOMAIN d |-> IF d[i].k = key THEN [k |-> key, v |-> value] ELSE d[i]]
    ELSE Append(d, [k |-> key, v |-> value])
\* faulty variant: removes the oldest entry
Del_first(d, key) == Tail(d)

Del(d, key) == SelectSeq(d, LAMBDA e : e.k # key)

\* Optional[Student]
None == <<>>
Some(st) == <<st>>

\* StudentManager.find_student
find_student(d, student_id) ==
    IF Has(d, student_id) THEN Some(Get(d, student_id)) ELSE None

----------------------------------------------------------------------------
(* The backing file                                                        *)

Absent == [kind |-> "absent", obj |-> <<>>]
\* a file json.load cannot parse: empty or cut short by a failed write
Garbage == [kind |-> "garbage", obj |-> <<>>]
JsonFile(obj) == [kind |-> "json", obj |-> obj]

\* what an attempt to write or read the file can meet
WriteOutcomes == {"ok", "open_fails", "dump_fails"}
ReadOutcomes == {"ok", "open_fails"}

\* the document save_data builds
save_document(d) ==
    "students" :> [i \in DOMAIN d |-> [k |-> d[i].k, v |-> to_dict(d[i].v)]]

\* StudentManager.save_data: the bool it returns and the file it leaves.
\* open(..., 'w') either raises and leaves the file alone or truncates it;
\* json.dump either completes or raises part-way.
save_data(d, f, io) ==
    IF io = "ok" THEN [ok |-> TRUE, file |-> JsonFile(save_document(d))]
    ELSE IF io = "open_fails" THEN [ok |-> FALSE, file |-> f]
    ELSE [ok |-> FALSE, file |-> Garbage]

\* data.get('students', {})
document_students(obj) == IF "students" \in DOMAIN obj THEN obj["students"] ELSE <<>>

\* faulty variant: keeps the records read before the failure
load_data_partial(d, f, io) ==
    IF f.kind = "absent" THEN [ok |-> TRUE, students |-> d]
    ELSE IF io # "ok" \/ f.kind = "garbage" THEN [ok |-> FALSE, students |-> d]
    ELSE LET entries == document_students(f.obj)
             good == SelectSeq(entries, LAMBDA e : ~from_dict_raises(e.v))
         IN [ok |-> Len(good) = Len(entries),
             students |-> [i \in DOMAIN good |->
                              [k |-> good[i].k, v |-> from_dict(good[i].v)]]]

\* StudentManager.load_data: the bool it returns and the dict it leaves
load_data(d, f, io) ==
    IF f.kind = "absent" THEN [ok |-> TRUE, students |-> d]
    ELSE IF io # "ok" \/ f.kind = "garbage" THEN [ok |-> FALSE, students |-> d]
    ELSE LET entries == document_students(f.obj)
         IN IF \E i \in DOMAIN entries : from_dict_raises(entries[i].v)
            THEN [ok |-> FALSE, students |-> d]
            ELSE [ok |-> TRUE,
                  students |-> [i \in DOMAIN entries |->
                                   [k |-> entries[i].k, v |-> from_dict(entries[i].v)]]]

----------------------------------------------------------------------------
(* Statistics                                                              *)

\* [student.get_average_score() for student in self.students.values()]
average_scores(d) == [i \in DOMAIN d |-> get_average_score(d[i].v)]

RECURSIVE QSum(_, _)
\* sum(scores) over the first n items
QSum(q, n) == IF n = 0 THEN Quot(0, 1) ELSE QAdd(QSum(q, n - 1), q[n])

\* faulty variant: the last item
PyMax_last(q, n) == q[n]

RECURSIVE PyMax(_, _)
\* max(scores) over the first n items: a later item wins only when it is > the best so far
PyMax(q, n) ==
    IF n = 1 THEN q[1]
    ELSE LET best == PyMax(q, n - 1) IN IF QGt(q[n], best) THEN q[n] ELSE best

RECURSIVE PyMin(_, _)
\* min(scores) over the first n items
PyMin(q, n) ==
    IF n = 1 THEN q[1]
    ELSE LET best == PyMin(q, n - 1) IN IF QLt(q[n], best) THEN q[n] ELSE best

\* sum(scores) / total_students
QDiv(a, n) == IF a.k = "nan" THEN NaNQuot ELSE Quot(a.n, a.d * n)

\* StudentManager.get_class_statistics
get_class_statistics(d) ==
    IF Len(d) = 0
    THEN [total_students |-> 0, average_score |-> Quot(0, 1), max_score |-> Quot(0, 1),
          min_score |-> Quot(0, 1), excellent_count |-> 0, fail_count |-> 0]
    ELSE LET total_students == Len(d)
             scores == average_scores(d)
         IN [total_students |-> total_students,
             average_score |-> QDiv(QSum(scores, total_students), total_students),
             max_score |-> PyMax(scores, total_students),
             min_score |-> PyMin(scores, total_students),
             excellent_count |->
                 Len(SelectSeq(scores, LAMBDA x : QGe(x, Quot(ExcellentLine, 1)))),
             fail_count |->
                 Len(SelectSeq(scores, LAMBDA x : QLt(x, Quot(PassLine, 1))))]

----------------------------------------------------------------------------------------------------------------------------------------------
(* Inputs                                                                  *)

RECURSIVE add_scores(_, _, _)
\* for subject, score in items: student.add_score(subject, score), results dropped
add_scores(scores, items, keys) ==
    IF keys = {} THEN scores
    ELSE LET key == CHOOSE x \in keys : TRUE
         IN add_scores(add_score(scores, key, items[key]).scores, items, keys \ {key})

\* the dicts subject -> score a caller can pass
ScoreDicts(subjects, inputs) == UNION {[S -> inputs] : S \in SUBSET subjects}

\* the Students a caller can construct and hand to add_student
NewStudents(ids, names, ages, genders) ==
    {NewStudent(id, name, age, gender, now) :
        id \in ids, name \in names, age \in ages, gender \in genders, now \in Times}

Opt(key, values) == {<<>>} \cup {key :> x : x \in values}

\* the **kwargs of update_student
Kwargs(names, ages, genders, scoredicts) ==
    {n @@ a @@ g @@ sc :
        n \in Opt("name", names), a \in Opt("age", ages),
        g \in Opt("gender", genders), sc \in Opt("scores", scoredicts)}

\* the **kwargs update_student_ui passes: one field
UiKwargs(names, ages, genders) ==
    (Opt("name", names) \cup Opt("age", ages) \cup Opt("gender", genders)) \ {<<>>}

----------
(* class StudentManager: one action per call                               *)

Called(name, id, io) == op' = [name |-> name, id |-> id, io |-> io]

\* faulty variant: a present id is overwritten
add_student_overwrite(st, io) ==
    /\ students' = Put(students, st.student_id, st)
    /\ file' = save_data(students', file, io).file
    /\ ret' = ~Has(students, st.student_id)
    /\ Called("add_student", st.student_id, IF Has(students, st.student_id) THEN "none" ELSE io)
    /\ stats' = None
    /\ UNCHANGED <<student, result>>

\* StudentManager.add_student
add_student(st, io) ==
    /\ IF Has(students, st.student_id)
       THEN /\ ret' = FALSE
            /\ Called("add_student", st.student_id, "none")
            /\ UNCHANGED <<students, file>>
       ELSE /\ students' = Put(students, st.student_id, st)
            /\ file' = save_data(students', file, io).file
            /\ ret' = TRUE
            /\ Called("add_student", st.student_id, io)
    /\ stats' = None
    /\ UNCHANGED <<student, result>>

\* StudentManager.delete_student
delete_student(student_id, io) ==
    /\ IF ~Has(students, student_id)
       THEN /\ ret' = FALSE
            /\ Called("delete_student", student_id, "none")
            /\ UNCHANGED <<students, file>>
       ELSE /\ students' = Del(students, student_id)
            /\ file' = save_data(students', file, io).file
            /\ ret' = TRUE
            /\ Called("delete_student", student_id, io)
    /\ stats' = None
    /\ UNCHANGED <<student, result>>

\* faulty variant: a supplied scores field replaces the mapping
updated_replacing(st, kwargs) ==
    [st EXCEPT
        !.name = IF "name" \in DOMAIN kwargs THEN kwargs["name"] ELSE @,
        !.age = IF "age" \in DOMAIN kwargs THEN kwargs["age"] ELSE @,
        !.gender = IF "gender" \in DOMAIN kwargs THEN kwargs["gender"] ELSE @,
        !.scores = IF "scores" \in DOMAIN kwargs
                   THEN add_scores(EmptyDict, kwargs["scores"], DOMAIN kwargs["scores"])
                   ELSE @]

\* the Student update_student leaves
updated(st, kwargs) ==
    [st EXCEPT
        !.name = IF "name" \in DOMAIN kwargs THEN kwargs["name"] ELSE @,
        !.age = IF "age" \in DOMAIN kwargs THEN kwargs["age"] ELSE @,
        !.gender = IF "gender" \in DOMAIN kwargs THEN kwargs["gender"] ELSE @,
        !.scores = IF "scores" \in DOMAIN kwargs
                   THEN add_scores(@, kwargs["scores"], DOMAIN kwargs["scores"])
                   ELSE @]

\* StudentManager.update_student
update_student(student_id, kwargs, io) ==
    /\ IF ~Has(students, student_id)
       THEN /\ ret' = FALSE
            /\ Called("update_student", student_id, "none")
            /\ UNCHANGED <<students, file>>
       ELSE /\ students' = Put(students, student_id,
                               updated(Get(students, student_id), kwargs))
            /\ file' = save_data(students', file, io).file
            /\ ret' = TRUE
            /\ Called("update_student", student_id, io)
    /\ stats' = None
    /\ UNCHANGED <<student, result>>

\* faulty variant: the score is stored and save_data is not called
add_score_ui_unsaved(student_id, subject, score, io) ==
    /\ IF \/ ~Has(students, student_id)
          \/ ~add_score(Get(students, student_id).scores, subject, score).ok
       THEN /\ ret' = FALSE
            /\ Called("add_score_ui", student_id, "none")
            /\ UNCHANGED students
       ELSE /\ students' = Put(students, student_id,
                   [Get(students, student_id) EXCEPT
                       !.scores = add_score(@, subject, score).scores])
            /\ ret' = TRUE
            /\ Called("add_score_ui", student_id, io)
    /\ stats' = None
    /\ UNCHANGED <<file, student, result>>

\* GradeManagerUI.add_score_ui; ret is whether it reported success
add_score_ui(student_id, subject, score, io) ==
    /\ IF \/ ~Has(students, student_id)
          \/ ~IsIntOrFloat(score)                       \* float(input()) raises ValueError
          \/ Lt(score, Num(MinScore)) \/ Gt(score, Num(MaxScore))
          \/ ~add_score(Get(students, student_id).scores, subject, score).ok
       THEN /\ ret' = FALSE
            /\ Called("add_score_ui", student_id, "none")
            /\ UNCHANGED <<students, file>>
       ELSE /\ students' = Put(students, student_id,
                   [Get(students, student_id) EXCEPT
                       !.scores = add_score(@, subject, score).scores])
            /\ file' = save_data(students', file, io).file
            /\ ret' = TRUE
            /\ Called("add_score_ui", student_id, io)
    /\ stats' = None
    /\ UNCHANGED <<student, result>>

\* a call of StudentManager.load_data after construction
reload(io) ==
    /\ students' = load_data(students, file, io).students
    /\ ret' = load_data(students, file, io).ok
    /\ Called("load_data", "", IF file.kind = "absent" THEN "none" ELSE io)
    /\ stats' = None
    /\ UNCHANGED <<file, student, result>>

\* a call of StudentManager.get_class_statistics
statistics ==
    /\ stats' = Some(get_class_statistics(students))
    /\ Called("get_class_statistics", "", "none")
    /\ UNCHANGED <<students, file, ret, student, result>>

\* a call of Student.add_score on the free-standing Student
student_add_score(subject, score) ==
    /\ student' = [student EXCEPT !.scores = add_score(@, subject, score).scores]
    /\ result' = add_score(student.scores, subject, score).ok
    /\ Called("add_score", subject, "none")
    /\ UNCHANGED <<students, file, ret, stats>>

----------------------------------------------------------------------------
(* Specifications                                                          *)

\* StudentManager.__init__ on the file it finds
Constructed(f, io) ==
    /\ file = f
    /\ students = load_data(<<>>, f, io).students
    /\ ret = load_data(<<>>, f, io).ok
    /\ stats = None
    /\ op = [name |-> "__init__", id |-> "", io |-> IF f.kind = "absent" THEN "none" ELSE io]

\* a Student with unremarkable fields
PlainStudent(id) == NewStudent(id, "Ann", 20, "M", [sec |-> 1, us |-> 250000])
AStudent == PlainStudent("s1")

\* first run: no backing file yet, and every write succeeds
Init ==
    /\ Constructed(Absent, "ok")
    /\ student = AStudent
    /\ result = FALSE

Next ==
    \/ \E st \in NewStudents({"s1", "s2"}, Names, {20}, {"M"}) : add_student(st, "ok")
    \/ \E id \in {"s1", "s2"} : delete_student(id, "ok")
    \/ \E id \in {"s1", "s2"}, kwargs \in UiKwargs(Names, Ages, {}) :
          update_student(id, kwargs, "ok")
    \/ \E id \in {"s1", "s2"}, score \in {Num(100), Num(101), NaN, NotANumber} :
          add_score_ui(id, "math", score, "ok")
    \/ reload("ok")

Spec == Init /\ [][Next]_vars

\* a Student on its own: constructed, then given scores
InitRecord ==
    /\ Constructed(Absent, "ok")
    /\ student \in NewStudents({"s1"}, Names, Ages, Genders)
    /\ result = FALSE

NextRecord == \E subject \in Subjects, score \in ScoreInputs : student_add_score(subject, score)

SpecRecord == InitRecord /\ [][NextRecord]_vars

\* updates with every combination of fields on one record, before it is added
\* and after, next to a bystander
UpdateKwargs ==
    Kwargs({"Bob"}, {200}, {"X"},
           {m @@ e : m \in Opt("math", {Num(60), Num(90), Num(101)}),
                     e \in Opt("eng", {Num(60), NaN})})

NextUpdate ==
    \/ \E id \in {"s1", "s2"} : add_student(PlainStudent(id), "ok")
    \/ \E kwargs \in UpdateKwargs : update_student("s1", kwargs, "ok")

SpecUpdate == Init /\ [][NextUpdate]_vars

\* three records gathering scores, and the statistics over them
NextStats ==
    \/ \E id \in Ids : add_student(PlainStudent(id), "ok")
    \/ \E id \in {"s1", "s2"}, subject \in Subjects, score \in {Num(60), Num(90), NaN} :
          add_score_ui(id, subject, score, "ok")
    \/ \E score \in {Num(60), Num(90), NaN} : add_score_ui("s3", "math", score, "ok")
    \/ statistics

SpecStats == Init /\ [][NextStats]_vars

\* a file holding no 'students' key
EmptyDocument == JsonFile(<<>>)
\* a file whose first record is whole and whose second lacks create_time
HalfGoodFile ==
    JsonFile("students" :>
        << [k |-> "s2", v |-> to_dict(PlainStudent("s2"))],
           [k |-> "s1", v |-> [student_id |-> "s1", name |-> "Ann", age |-> 20,
                               gender |-> "M", scores |-> EmptyDict]] >>)
\* a file whose record lacks scores
NoScoresFile ==
    JsonFile("students" :>
        << [k |-> "s2", v |-> [student_id |-> "s2", name |-> "Bob", age |-> 20,
                               gender |-> "M", create_time |-> <<1>>]] >>)
\* a file whose record carries a create_time that is no ISO text
BadTimeFile ==
    JsonFile("students" :>
        << [k |-> "s2", v |-> [student_id |-> "s2", name |-> "Bob", age |-> 20,
                               gender |-> "M", scores |-> EmptyDict,
                               create_time |-> <<>>]] >>)
InitialFiles == {Absent, Garbage, EmptyDocument, HalfGoodFile, NoScoresFile, BadTimeFile}

\* any run: the file found at start is arbitrary, reads and writes can fail
InitIO ==
    /\ \E f \in InitialFiles, io \in ReadOutcomes : Constructed(f, io)
    /\ student = AStudent
    /\ result = FALSE

NextIO ==
    \/ \E id \in {"s1", "s2"}, io \in WriteOutcomes : add_student(PlainStudent(id), io)
    \/ \E id \in {"s1", "s2"}, io \in WriteOutcomes : delete_student(id, io)
    \/ \E id \in {"s1", "s2"}, io \in WriteOutcomes :
          update_student(id, "name" :> "Bob", io)
    \/ \E id \in {"s1", "s2"}, io \in WriteOutcomes :
          add_score_ui(id, "math", Num(100), io)
    \/ \E io \in ReadOutcomes : reload(io)

SpecIO == InitIO /\ [][NextIO]_vars

----------------------------------------------------------------------------
(* Properties of the store when every write succeeds                       *)

Mutating == {"add_student", "delete_student", "update_student", "add_score_ui"}

\* two stores hold the same ids and, under each id, the same Student
SameRecords(d1, d2) ==
    /\ Keys(d1) = Keys(d2)
    /\ \A id \in Keys(d1) :
          LET a == Get(d1, id)
              b == Get(d2, id)
          IN /\ a.student_id = b.student_id /\ a.name = b.name /\ a.age = b.age
             /\ a.gender = b.gender /\ a.scores = b.scores
             /\ a.create_time = b.create_time

\* C1: saving the records of any reachable store and loading the written file
\* into a fresh store gives back the same ids with the same name, age, gender,
\* scores and creation time.
RoundTrip ==
    LET written == save_data(students, file, "ok")
        fresh == load_data(<<>>, written.file, "ok")
    IN written.ok /\ fresh.ok /\ SameRecords(fresh.students, students)

\* C1 witness: a reload has succeeded on a store of two records, one created on a
\* fraction of a second and holding a score
RoundTripWitness ==
    /\ op.name = "load_data" /\ ret
    /\ Len(students) = 2
    /\ \E i \in DOMAIN students :
          students[i].v.create_time.us # 0 /\ DOMAIN students[i].v.scores # {}
    /\ \E i \in DOMAIN students : students[i].v.create_time.us = 0

\* C2: add_student of a fresh id returns True and find_student then returns that
\* Student; add_student of an id already present returns False and leaves every
\* record and the file as they were.
AddContract ==
    [][op'.name = "add_student" =>
        \A st \in NewStudents({op'.id}, Names, Ages, Genders) : add_student(st, "ok") =>
            IF Has(students, st.student_id)
            THEN ret' = FALSE /\ students' = students /\ file' = file
            ELSE /\ ret' = TRUE
                 /\ find_student(students', st.student_id) = Some(st)
                 /\ \A id \in Ids \ {st.student_id} :
                       find_student(students', id) = find_student(students, id)]_vars

\* C2 witness: an add_student of an id already present has been refused
AddWitness == op.name = "add_student" /\ ~ret /\ Len(students) = 2

\* C3: delete_student of a present id returns True, find_student then returns
\* None and every other record is unchanged; delete_student of an absent id
\* returns False and leaves the records and the file unchanged.
DeleteContract ==
    [][op'.name = "delete_student" =>
        \A id \in Ids : delete_student(id, "ok") =>
            IF Has(students, id)
            THEN /\ ret' = TRUE
                 /\ find_student(students', id) = None
                 /\ \A other \in Ids \ {id} :
                       find_student(students', other) = find_student(students, other)
            ELSE ret' = FALSE /\ students' = students /\ file' = file]_vars

\* C3 witness: a delete_student has removed one of two records
DeleteWitness == op.name = "delete_student" /\ ret /\ Len(students) = 1

\* C5, as claimed: in every reachable state no id is empty or stored twice, every
\* score lies in [0,100], every age in [0,150], every gender is an allowed one.
DataModelInvariant ==
    /\ \A i, j \in DOMAIN students : students[i].k = students[j].k => i = j
    /\ \A i \in DOMAIN students :
          LET st == students[i].v
          IN /\ students[i].k # "" /\ st.student_id # ""
             /\ \A subject \in DOMAIN st.scores :
                   /\ st.scores[subject].k = "num"
                   /\ st.scores[subject].v >= MinScore
                   /\ st.scores[subject].v <= MaxScore
             /\ st.age >= MinAge /\ st.age <= MaxAge
             /\ st.gender \in AllowedGenders

----------------------------------------------------------------------------
(* Properties of Student.add_score                                         *)

\* a number within [0,100]
ValidScore(score) == score.k = "num" /\ score.v >= MinScore /\ score.v <= MaxScore

\* C4, as claimed: add_score of a value in [0,100] returns True and the subject
\* then reads as that value, the other subjects unchanged; add_score of any other
\* value returns False and leaves the scores unchanged.
SetScoreContract ==
    [][\A subject \in Subjects, score \in ScoreInputs :
        student_add_score(subject, score) =>
            IF ValidScore(score)
            THEN /\ result' = TRUE
                 /\ subject \in DOMAIN student'.scores
                 /\ student'.scores[subject] = score
                 /\ \A other \in Subjects \ {subject} :
                       /\ other \in DOMAIN student'.scores <=> other \in DOMAIN student.scores
                       /\ other \in DOMAIN student.scores =>
                             student'.scores[other] = student.scores[other]
            ELSE result' = FALSE /\ student'.scores = student.scores]_vars

----------------------------------------------------------------------------
(* Properties of update_student                                            *)

\* the frame of an update: the fields name, age, gender of the record before
\* and after, the id and the creation time
FieldsUpdated(old, new, kwargs) ==
    /\ new.student_id = old.student_id
    /\ new.create_time = old.create_time
    /\ new.name = IF "name" \in DOMAIN kwargs THEN kwargs["name"] ELSE old.name
    /\ new.age = IF "age" \in DOMAIN kwargs THEN kwargs["age"] ELSE old.age
    /\ new.gender = IF "gender" \in DOMAIN kwargs THEN kwargs["gender"] ELSE old.gender

SameScore(old, new, subject) ==
    /\ subject \in DOMAIN new.scores <=> subject \in DOMAIN old.scores
    /\ subject \in DOMAIN old.scores => new.scores[subject] = old.scores[subject]

----------------------------------------------------------------------------
(* Properties of get_class_statistics                                      *)

\* the per-record average of each id
AverageOf(id) == get_average_score(Get(students, id))

RECURSIVE Total(_, _)
Total(scores, subjects) ==
    IF subjects = {} THEN 0
    ELSE LET subject == CHOOSE x \in subjects : TRUE
         IN scores[subject].v + Total(scores, subjects \ {subject})

\* a is the mean of the scores of st, 0 when it has none
IsAverage(st, a) ==
    IF DOMAIN st.scores = {} THEN a = Quot(0, 1)
    ELSE IF \E subject \in DOMAIN st.scores : st.scores[subject].k = "nan" THEN a.k = "nan"
    ELSE a.k = "num" /\ a.n * Cardinality(DOMAIN st.scores)
                           = a.d * Total(st.scores, DOMAIN st.scores)

RECURSIVE Denominators(_)
Denominators(ids) ==
    IF ids = {} THEN 1
    ELSE LET id == CHOOSE x \in ids : TRUE
         IN AverageOf(id).d * Denominators(ids \ {id})

RECURSIVE ScaledSum(_, _)
\* the sum of the averages of ids, times scale
ScaledSum(ids, scale) ==
    IF ids = {} THEN 0
    ELSE LET id == CHOOSE x \in ids : TRUE
         IN AverageOf(id).n * (scale \div AverageOf(id).d) + ScaledSum(ids \ {id}, scale)

\* r is the aggregate the claim describes for the current records
IsAggregate(r) ==
    LET ids == Keys(students)
        count == Cardinality(ids)
        scale == Denominators(ids)
    IN IF ids = {}
       THEN /\ r.total_students = 0 /\ r.average_score = Quot(0, 1)
            /\ r.max_score = Quot(0, 1) /\ r.min_score = Quot(0, 1)
            /\ r.excellent_count = 0 /\ r.fail_count = 0
       ELSE /\ r.total_students = count
            /\ \A id \in ids : IsAverage(Get(students, id), AverageOf(id))
            /\ IF \E id \in ids : AverageOf(id).k = "nan"
               THEN r.average_score.k = "nan"
               ELSE /\ r.average_score.k = "num"
                    /\ r.average_score.n * count * scale
                          = r.average_score.d * ScaledSum(ids, scale)
            /\ \E id \in ids : r.max_score = AverageOf(id)
            /\ \A id \in ids : ~QGt(AverageOf(id), r.max_score)
            /\ \E id \in ids : r.min_score = AverageOf(id)
            /\ \A id \in ids : ~QLt(AverageOf(id), r.min_score)
            /\ r.excellent_count
                  = Cardinality({id \in ids : QGe(AverageOf(id), Quot(ExcellentLine, 1))})
            /\ r.fail_count
                  = Cardinality({id \in ids : QLt(AverageOf(id), Quot(PassLine, 1))})

\* C10: get_class_statistics returns all zeros on an empty store and otherwise
\* the count of records, the mean, a greatest and a least of the per-record
\* averages (no score counting as 0), the number of averages >= 90 and the number
\* < 60; it changes neither the records nor the file.
StatisticsContract ==
    [][op'.name = "get_class_statistics" =>
        /\ students' = students /\ file' = file
        /\ stats' # None
        /\ IsAggregate(stats'[1])]_vars

\* C10 witness: the statistics of three records whose averages are 90, 75 and 0
StatisticsWitness ==
    /\ op.name = "get_class_statistics" /\ stats # None
    /\ Len(students) = 3
    /\ {AverageOf(id) : id \in Ids} = {Quot(90, 1), Quot(75, 1), Quot(0, 1)}
    /\ stats[1].excellent_count = 1 /\ stats[1].fail_count = 1
    /\ stats[1].average_score = Quot(55, 1)

----------------------------------------------------------------------------
(* Properties of the store when reads and writes can fail                  *)

\* C7, as claimed: an add, delete or update whose write fails returns False and
\* leaves the records in memory as they were before it.
WriteFailureContract ==
    [][(/\ op'.name \in {"add_student", "delete_student", "update_student"}
        /\ op'.io \in {"open_fails", "dump_fails"})
        => ret' = FALSE /\ students' = students]_vars

\* reading f fails: the open or the read raises, the text does not parse, or
\* some record lacks a field or carries an unreadable creation time
LoadFails(f, io) ==
    \/ io # "ok"
    \/ f.kind = "garbage"
    \/ \E i \in DOMAIN document_students(f.obj) :
          LET data == document_students(f.obj)[i].v
          IN \/ \E key \in {"student_id", "name", "age", "gender", "create_time"} :
                   key \notin DOMAIN data
             \/ Len(data.create_time) = 0

\* C8: a load_data that finds the file and fails on it returns False and leaves
\* the records in memory exactly as they were.
FailedLoadContract ==
    [][(op'.name = "load_data" /\ file.kind # "absent" /\ LoadFails(file, op'.io))
        => ret' = FALSE /\ students' = students]_vars

\* C8 witness: a load has failed on a file whose first record is whole and whose
\* second is not, while memory held a record the file does not
FailedLoadWitness ==
    /\ op.name = "load_data" /\ ~ret /\ op.io = "ok"
    /\ file = HalfGoodFile
    /\ Keys(students) = {"s1"}

====
